---- MODULE Spec2Model ----
(***************************************************************************)
(* Model of the flexkit client package (src/flexkit/flexkit.go), of the    *)
(* older copy of the same package kept in src/unnamed/part_000, and of New *)
(* of package plasso (src/members.go).                                     *)
(*                                                                         *)
(* A public operation is modelled in two steps, because the calling        *)
(* goroutine blocks in client.Do: the step that marshals the request and   *)
(* puts it on the wire, and the step in which the network answers and the  *)
(* rest of the function runs to its return.  Goroutines interleave between *)
(* the two steps.                                                          *)
(*                                                                         *)
(* Strings are TLA+ strings.  A formatted text (fmt.Sprintf) is the        *)
(* sequence of the pieces it is concatenated from.  JSON documents are     *)
(* tagged values; a response body is the string received, and Parse is     *)
(* encoding/json's reading of the bodies the model's server can send.      *)
(***************************************************************************)
EXTENDS Integers, Sequences, FiniteSets, TLC

VARIABLES
    pkg,      \* which copy of package flexkit the program is built from
    members,  \* the Member objects the program holds (a heap of *Member)
    retired,  \* history: the Member objects on which Logout or Delete returned nil
    pc,       \* per goroutine: "idle", "waiting" (inside client.Do) or "returned"
    op,       \* per goroutine: the public operation of its current call
    recv,     \* per goroutine: index in members of the receiver, 0 when there is none
    given,    \* history: the request value the caller passed to the call
    arg,      \* the caller's request variable (read again after the call)
    local,    \* the callee's by-value copy of the request, after its assignments
    wire,     \* per goroutine: the HTTP requests its current call has issued
    resp,     \* per goroutine: what the network answered to the current call
    ret,      \* per goroutine: what the call returned to its caller
    inner,    \* per goroutine: what sendRequest returned to the operation
    stale     \* history: the call was made on a Member that was already retired

vars == <<pkg, members, retired, pc, op, recv, given, arg, local, wire, resp, ret, inner, stale>>

(***************************************************************************)
(* Bounds and input sets                                                   *)
(***************************************************************************)
\* the number of Member objects the program holds at once
MaxMembers == 1

Packages == {"flexkit", "part_000"}

(***************************************************************************)
(* JSON documents                                                          *)
(***************************************************************************)
JNull == [t |-> "null"]
JStr(s) == [t |-> "string", s |-> s]
JNum(n) == [t |-> "number", n |-> n]
\* a JSON number that is no int32 literal (a fraction, or out of range)
JNumOther(lit) == [t |-> "number", lit |-> lit]
JObj(f) == [t |-> "object", f |-> f]
JArr(a) == [t |-> "array", a |-> a]
JEmptyObj == [t |-> "object", f |-> <<>>]

HasKey(j, k) == j.t = "object" /\ k \in DOMAIN j.f

(***************************************************************************)
(* Struct types: one entry per field, in declaration order.  exported is   *)
(* whether the Go field name starts with an upper-case letter.  A field of *)
(* kind "struct" or "slice" names its (element) type in elem.              *)
(***************************************************************************)
F(go, tag, exported, kind) ==
    [go |-> go, tag |-> tag, exported |-> exported, kind |-> kind, elem |-> <<>>]

FOf(go, tag, exported, kind, T) ==
    [go |-> go, tag |-> tag, exported |-> exported, kind |-> kind, elem |-> T]

\* Go's zero value of a field (a nil slice or map is <<>>)
ZeroOf(f) ==
    IF f.kind = "string" THEN ""
    ELSE IF f.kind \in {"int", "int32"} THEN 0
    ELSE IF f.kind = "struct" THEN f.elem.zero
    ELSE <<>>

\* a struct type: its fields, the field of each Go name, the exported field of
\* each json tag, and the zero value of the type
Type(fields) ==
    LET byName == [n \in {fields[i].go : i \in 1..Len(fields)} |->
                      fields[CHOOSE i \in 1..Len(fields) : fields[i].go = n]]
        tags == {fields[i].tag : i \in {j \in 1..Len(fields) : fields[j].exported}}
    IN  [fields |-> fields,
         byName |-> byName,
         byTag |-> [k \in tags |->
                      fields[CHOOSE i \in 1..Len(fields) :
                                fields[i].exported /\ fields[i].tag = k]],
         zero |-> [n \in DOMAIN byName |-> ZeroOf(byName[n])]]

Zero(T) == T.zero

LoginRequest ==
    Type(<< F("PublicKey", "public_key", TRUE, "string"),
       F("Email", "email", TRUE, "string"),
       F("Password", "password", TRUE, "string") >>)

Product ==
    Type(<< F("Id", "id", TRUE, "string"),
       F("Qty", "qty", TRUE, "string"),
       F("Amount", "amount", TRUE, "string") >>)

DataItem ==
    Type(<< F("Id", "id", TRUE, "string"),
       F("Value", "value", TRUE, "string") >>)

PaymentRequest ==
    Type(<< F("PublicKey", "public_key", TRUE, "string"),
       F("Token", "token", TRUE, "string"),
       FOf("Products", "products", TRUE, "slice", Product),
       F("BillingAddress", "billing_address", TRUE, "string"),
       F("BillingCity", "billing_city", TRUE, "string"),
       F("BillingState", "billing_state", TRUE, "string"),
       F("BillingZip", "billing_zip", TRUE, "string"),
       F("BillingCountry", "billing_country", TRUE, "string"),
       F("ShippingName", "shipping_name", TRUE, "string"),
       F("ShippingAddress", "shipping_address", TRUE, "string"),
       F("ShippingCity", "shipping_city", TRUE, "string"),
       F("ShippingState", "shipping_state", TRUE, "string"),
       F("ShippingZip", "shipping_zip", TRUE, "string"),
       F("ShippingCountry", "shipping_country", TRUE, "string"),
       F("ShippingOptions", "shipping_options", TRUE, "string"),
       FOf("DataFields", "data_fields", TRUE, "slice", DataItem),
       F("Coupon", "coupon", TRUE, "string"),
       F("Email", "email", TRUE, "string"),
       F("Name", "name", TRUE, "string") >>)

\* the fields of SubscriptionRequest after its first one
SubscriptionRequestRest ==
    << F("Email", "email", TRUE, "string"),
       F("Name", "name", TRUE, "string"),
       F("Password", "password", TRUE, "string"),
       F("Plan", "plan", TRUE, "string"),
       F("Token", "token", TRUE, "string"),
       F("BillingAddress", "billing_address", TRUE, "string"),
       F("BillingCity", "billing_city", TRUE, "string"),
       F("BillingState", "billing_state", TRUE, "string"),
       F("BillingZip", "billing_zip", TRUE, "string"),
       F("BillingCountry", "billing_country", TRUE, "string"),
       F("ShippingName", "shipping_name", TRUE, "string"),
       F("ShippingAddress", "shipping_address", TRUE, "string"),
       F("ShippingCity", "shipping_city", TRUE, "string"),
       F("ShippingState", "shipping_state", TRUE, "string"),
       F("ShippingZip", "shipping_zip", TRUE, "string"),
       F("ShippingCountry", "shipping_country", TRUE, "string"),
       F("ShippingOptions", "shipping_options", TRUE, "string"),
       FOf("DataFields", "data_fields", TRUE, "slice", DataItem),
       F("PublicKey", "public_key", TRUE, "string") >>

\* flexkit.go exports the first field, the older copy does not
SubscriptionRequestFlexkit ==
    Type(<<F("SubscriptionFor", "subscription_for", TRUE, "string")>>
         \o SubscriptionRequestRest)

SubscriptionRequestPart000 ==
    Type(<<F("subscriptionFor", "subscription_for", FALSE, "string")>>
         \o SubscriptionRequestRest)

SubscriptionRequest(p) ==
    IF p = "flexkit" THEN SubscriptionRequestFlexkit ELSE SubscriptionRequestPart000

\* PlanId is a string in flexkit.go and an int in the older copy
CreditCardRequestFields(planKind) ==
    << F("Last4", "cc_last_4", TRUE, "string"),
       F("Type", "cc_type", TRUE, "string"),
       F("PlanId", "plan", TRUE, planKind),
       F("Token", "token", TRUE, "string"),
       F("memberToken", "pltoken", FALSE, "string") >>

CreditCardRequestFlexkit == Type(CreditCardRequestFields("string"))

CreditCardRequestPart000 == Type(CreditCardRequestFields("int"))

CreditCardRequest(p) ==
    IF p = "flexkit" THEN CreditCardRequestFlexkit ELSE CreditCardRequestPart000

SettingsRequest ==
    Type(<< F("Email", "email", TRUE, "string"),
       F("Name", "name", TRUE, "string"),
       F("ShippingName", "shipping_name", TRUE, "string"),
       F("ShippingAddress", "shipping_address", TRUE, "string"),
       F("ShippingCity", "shipping_city", TRUE, "string"),
       F("ShippingState", "shipping_state", TRUE, "string"),
       F("ShippingZip", "shipping_zip", TRUE, "string"),
       F("ShippingCountry", "shipping_country", TRUE, "string"),
       F("ShippingOptions", "shipping_options", TRUE, "string"),
       F("token", "pltoken", FALSE, "string") >>)

\* the struct value v with field name set to x
With(v, name, x) == [v EXCEPT ![name] = x]

(***************************************************************************)
(* json.Marshal: a struct becomes an object that has one key per EXPORTED  *)
(* field, named by the field's json tag; unexported fields are skipped.    *)
(* A nil slice becomes null.  A map[string]string becomes an object with   *)
(* the map's keys.  None of the request types can make Marshal fail.       *)
(***************************************************************************)
\* a map[string]string
MarshalMap(m) == JObj([k \in DOMAIN m |-> JStr(m[k])])

\* a struct whose fields are all strings (Product, DataItem)
MarshalFlat(T, v) == JObj([k \in DOMAIN T.byTag |-> JStr(v[T.byTag[k].go])])

MarshalField(f, x) ==
    IF f.kind = "string" THEN JStr(x)
    ELSE IF f.kind = "int" THEN JNum(x)
    ELSE IF f.kind = "map" THEN MarshalMap(x)
    ELSE IF x = <<>> THEN JNull
    ELSE JArr([i \in 1..Len(x) |-> MarshalFlat(f.elem, x[i])])

MarshalStruct(T, v) ==
    JObj([k \in DOMAIN T.byTag |-> MarshalField(T.byTag[k], v[T.byTag[k].go])])

(***************************************************************************)
(* The response bodies the model's server can send, as the bytes received, *)
(* and Parse: how encoding/json reads each of them.  NotJson and NoBody    *)
(* are not JSON documents (a syntax error).                                *)
(***************************************************************************)
BodyTokenT1 == "{\"token\":\"t1\",\"expires\":3600}"
BodyEmptyObject == "{}"
BodyTokenNumber == "{\"token\":5}"
BodyEmptyArray == "[]"
BodyJsonNull == "null"
BodyErrorObject == "{\"error\":\"denied\"}"
BodyMemberFull == "{\"data\":{\"member\":{\"id\":\"m1\",\"name\":\"Ann\",\"email\":\"ann@x.io\",\"ccType\":\"visa\",\"ccLast4\":\"4242\",\"shippingInfo\":{\"name\":\"Ann S\",\"address\":\"1 Main St\",\"city\":\"Oslo\",\"state\":\"OS\",\"zip\":\"0150\",\"country\":\"NO\"},\"dataFields\":[{\"id\":\"d1\",\"value\":\"v1\"}],\"plan\":{\"alias\":\"gold\"}}}}"
BodyMemberPartial == "{\"data\":{\"member\":{\"id\":\"m2\",\"name\":\"Bob\",\"email\":null,\"ccLast4\":\"1881\",\"shippingInfo\":{\"city\":\"Rome\",\"zip\":\"00100\"},\"dataFields\":null}}}"
BodyMemberNull == "{\"data\":{\"member\":null}}"
BodyMemberErrors == "{\"errors\":[{\"message\":\"bad token\"}]}"
BodyMemberBadId == "{\"data\":{\"member\":{\"id\":7,\"name\":\"Cy\"}}}"
BodyPlassoFull == "{\"data\":{\"member\":{\"id\":\"m1\",\"planId\":7,\"space\":{\"slug\":\"acme\",\"logoutUrl\":\"https://acme.io/bye\"}}}}"
BodyPlassoPlanString == "{\"data\":{\"member\":{\"id\":\"m1\",\"planId\":\"gold\"}}}"
BodyPlassoPlanBig == "{\"data\":{\"member\":{\"id\":\"m1\",\"planId\":4294967296}}}"
BodyNotJson == "<html>Bad Gateway</html>"
BodyNoBody == ""

DocTokenT1 ==
    JObj(("token" :> JStr("t1")) @@ ("expires" :> JNum(3600)))
DocEmptyObject ==
    JEmptyObj
DocTokenNumber ==
    JObj(("token" :> JNum(5)))
DocEmptyArray ==
    JArr(<<>>)
DocJsonNull ==
    JNull
DocErrorObject ==
    JObj(("error" :> JStr("denied")))
DocMemberFull ==
    JObj(("data" :> JObj(("member" :> JObj(("id" :> JStr("m1")) @@ ("name" :> JStr("Ann")) @@ ("email" :> JStr("ann@x.io")) @@ ("ccType" :> JStr("visa")) @@ ("ccLast4" :> JStr("4242")) @@ ("shippingInfo" :> JObj(("name" :> JStr("Ann S")) @@ ("address" :> JStr("1 Main St")) @@ ("city" :> JStr("Oslo")) @@ ("state" :> JStr("OS")) @@ ("zip" :> JStr("0150")) @@ ("country" :> JStr("NO")))) @@ ("dataFields" :> JArr(<<JObj(("id" :> JStr("d1")) @@ ("value" :> JStr("v1")))>>)) @@ ("plan" :> JObj(("alias" :> JStr("gold")))))))))
DocMemberPartial ==
    JObj(("data" :> JObj(("member" :> JObj(("id" :> JStr("m2")) @@ ("name" :> JStr("Bob")) @@ ("email" :> JNull) @@ ("ccLast4" :> JStr("1881")) @@ ("shippingInfo" :> JObj(("city" :> JStr("Rome")) @@ ("zip" :> JStr("00100")))) @@ ("dataFields" :> JNull))))))
DocMemberNull ==
    JObj(("data" :> JObj(("member" :> JNull))))
DocMemberErrors ==
    JObj(("errors" :> JArr(<<JObj(("message" :> JStr("bad token")))>>)))
DocMemberBadId ==
    JObj(("data" :> JObj(("member" :> JObj(("id" :> JNum(7)) @@ ("name" :> JStr("Cy")))))))
DocPlassoFull ==
    JObj(("data" :> JObj(("member" :> JObj(("id" :> JStr("m1")) @@ ("planId" :> JNum(7)) @@ ("space" :> JObj(("slug" :> JStr("acme")) @@ ("logoutUrl" :> JStr("https://acme.io/bye")))))))))
DocPlassoPlanString ==
    JObj(("data" :> JObj(("member" :> JObj(("id" :> JStr("m1")) @@ ("planId" :> JStr("gold")))))))
DocPlassoPlanBig ==
    JObj(("data" :> JObj(("member" :> JObj(("id" :> JStr("m1")) @@ ("planId" :> JNumOther("4294967296")))))))

Parsed(v) == [ok |-> TRUE, v |-> v]

Parse(raw) ==
    CASE raw = BodyTokenT1 -> Parsed(DocTokenT1)
      [] raw = BodyEmptyObject -> Parsed(DocEmptyObject)
      [] raw = BodyTokenNumber -> Parsed(DocTokenNumber)
      [] raw = BodyEmptyArray -> Parsed(DocEmptyArray)
      [] raw = BodyJsonNull -> Parsed(DocJsonNull)
      [] raw = BodyErrorObject -> Parsed(DocErrorObject)
      [] raw = BodyMemberFull -> Parsed(DocMemberFull)
      [] raw = BodyMemberPartial -> Parsed(DocMemberPartial)
      [] raw = BodyMemberNull -> Parsed(DocMemberNull)
      [] raw = BodyMemberErrors -> Parsed(DocMemberErrors)
      [] raw = BodyMemberBadId -> Parsed(DocMemberBadId)
      [] raw = BodyPlassoFull -> Parsed(DocPlassoFull)
      [] raw = BodyPlassoPlanString -> Parsed(DocPlassoPlanString)
      [] raw = BodyPlassoPlanBig -> Parsed(DocPlassoPlanBig)
      [] OTHER -> [ok |-> FALSE, v |-> JNull]

(***************************************************************************)
(* The response types (the nested anonymous structs first)                 *)
(***************************************************************************)
tokenResponse == Type(<< F("Token", "token", TRUE, "string") >>)

memberDataResponsePlan == Type(<< F("Alias", "alias", TRUE, "string") >>)

memberDataResponseShippingInfo ==
    Type(<< F("Name", "name", TRUE, "string"),
       F("Address", "address", TRUE, "string"),
       F("City", "city", TRUE, "string"),
       F("State", "state", TRUE, "string"),
       F("Zip", "zip", TRUE, "string"),
       F("Country", "country", TRUE, "string") >>)

memberDataResponseMember ==
    Type(<< F("Id", "id", TRUE, "string"),
       F("Name", "name", TRUE, "string"),
       F("Email", "email", TRUE, "string"),
       F("CcType", "ccType", TRUE, "string"),
       F("CcLast4", "ccLast4", TRUE, "string"),
       FOf("Plan", "plan", TRUE, "struct", memberDataResponsePlan),
       FOf("ShippingInfo", "shippingInfo", TRUE, "struct", memberDataResponseShippingInfo),
       FOf("DataFields", "dataFields", TRUE, "slice", DataItem) >>)

memberDataResponseData ==
    Type(<< FOf("Member", "member", TRUE, "struct", memberDataResponseMember) >>)

memberDataResponse ==
    Type(<< FOf("Data", "data", TRUE, "struct", memberDataResponseData) >>)

\* package plasso (src/members.go)
gqlResponseSpace ==
    Type(<< F("Slug", "slug", TRUE, "string"),
       F("LogoutUrl", "logoutUrl", TRUE, "string") >>)

gqlResponseMember ==
    Type(<< F("Id", "id", TRUE, "string"),
       F("PlanId", "planId", TRUE, "int32"),
       FOf("Space", "space", TRUE, "struct", gqlResponseSpace) >>)

gqlResponseData ==
    Type(<< FOf("Member", "member", TRUE, "struct", gqlResponseMember) >>)

gqlResponse ==
    Type(<< FOf("Data", "data", TRUE, "struct", gqlResponseData) >>)

(***************************************************************************)
(* json.Unmarshal into a struct.  null leaves the destination as it is; a  *)
(* JSON object sets the exported fields whose tag is one of its keys and   *)
(* ignores its other keys; any other document, and a value of the wrong    *)
(* JSON type for a field, is an UnmarshalTypeError.  A body that is not    *)
(* JSON is a SyntaxError.  (Keys are matched exactly; the bodies of the    *)
(* model never differ from a tag by letter case alone.)                    *)
(***************************************************************************)
RECURSIVE Decode(_, _, _), DecodeField(_, _, _)
Decode(T, j, cur) ==
    IF j.t = "null" THEN [err |-> FALSE, v |-> cur]
    ELSE IF j.t # "object" THEN [err |-> TRUE, v |-> cur]
    ELSE LET fld(n) == T.byName[n]
             present(n) == fld(n).exported /\ fld(n).tag \in DOMAIN j.f
             d(n) == DecodeField(fld(n), j.f[fld(n).tag], cur[n])
         IN  [err |-> \E n \in DOMAIN cur : present(n) /\ d(n).err,
              v |-> [n \in DOMAIN cur |-> IF present(n) THEN d(n).v ELSE cur[n]]]

DecodeField(f, jv, cur) ==
    IF jv.t = "null" THEN [err |-> FALSE, v |-> cur]
    ELSE IF f.kind = "string"
    THEN IF jv.t = "string" THEN [err |-> FALSE, v |-> jv.s] ELSE [err |-> TRUE, v |-> cur]
    ELSE IF f.kind \in {"int", "int32"}
    THEN IF jv.t = "number" /\ "n" \in DOMAIN jv
         THEN [err |-> FALSE, v |-> jv.n]
         ELSE [err |-> TRUE, v |-> cur]
    ELSE IF f.kind = "struct" THEN Decode(f.elem, jv, cur)
    ELSE IF jv.t # "array" THEN [err |-> TRUE, v |-> cur]
    ELSE LET el(i) == Decode(f.elem, jv.a[i], Zero(f.elem))
         IN  [err |-> \E i \in 1..Len(jv.a) : el(i).err,
              v |-> [i \in 1..Len(jv.a) |-> el(i).v]]

(***************************************************************************)
(* Go error values: the kind of failure and the text of Error().           *)
(***************************************************************************)
NilErr == [kind |-> "nil", text |-> <<>>]
SyntaxErr == [kind |-> "syntax", text |-> <<"invalid character looking for beginning of value">>]
TypeErr == [kind |-> "type", text |-> <<"json: cannot unmarshal">>]
TransportErr == [kind |-> "transport", text |-> <<"net/http: request failed">>]
ReadErr == [kind |-> "read", text |-> <<"unexpected EOF">>]
UnsupportedTypeErr == [kind |-> "marshal", text |-> <<"json: unsupported type: chan int">>]
NewRequestErr == [kind |-> "request", text |-> <<"net/http: invalid method">>]

Unmarshal(raw, T) ==
    LET p == Parse(raw) IN
    IF ~p.ok THEN [err |-> SyntaxErr, v |-> Zero(T)]
    ELSE LET d == Decode(T, p.v, Zero(T))
         IN  [err |-> IF d.err THEN TypeErr ELSE NilErr, v |-> d.v]

(***************************************************************************)
(* The package's constants, fmt.Sprintf and the HTTP exchange              *)
(***************************************************************************)
domain == "https://plasso.com"

getMemberQuery ==
    "query getMember($token: String) { member(token: $token) { id, name, email, ccType, ccLast4, shippingInfo { name address city state zip country }, dataFields { id, value }, plan { alias } } }"

gqlQuery ==
    Type(<< F("Query", "query", TRUE, "string"),
            F("Variables", "variables", TRUE, "map") >>)

\* the decimal digits %d writes
Digit(d) == <<"0", "1", "2", "3", "4", "5", "6", "7", "8", "9">>[d + 1]

RECURSIVE Itoa(_)
Itoa(n) == IF n < 10 THEN <<Digit(n)>> ELSE Itoa(n \div 10) \o <<Digit(n % 10)>>

\* fmt.Sprintf("%s%s", domain, path)
Url(path) == <<domain, path>>

\* mutant: the response body is left out of the text
ErrorTextWithoutBody(kind, status, url, body) ==
    <<kind, " ">> \o Itoa(status) \o <<" ">> \o url

\* fmt.Sprintf("%s %d %s %s", kind, res.StatusCode, url, string(responseBody))
ErrorText(kind, status, url, body) ==
    <<kind, " ">> \o Itoa(status) \o <<" ">> \o url \o <<" ", body>>

\* an interface{} value: the dynamic type and the value.  A channel stands for
\* the values encoding/json has no encoding for.
Iface(T, v) == [map |-> FALSE, chan |-> FALSE, T |-> T, v |-> v]
IfaceMap(m) == [map |-> TRUE, chan |-> FALSE, T |-> <<>>, v |-> m]
IfaceChan == [map |-> FALSE, chan |-> TRUE, T |-> <<>>, v |-> <<>>]

\* json.Marshal(i): the bytes, and the error (none for the request types of
\* this package, an UnsupportedTypeError for a channel)
MarshalBody(i) ==
    IF i.chan THEN JNull
    ELSE IF i.map THEN MarshalMap(i.v)
    ELSE MarshalStruct(i.T, i.v)

MarshalErr(i) == IF i.chan THEN UnsupportedTypeErr ELSE NilErr

\* http.NewRequest refuses a method that is not a token; of the methods of the
\* model only "BAD METHOD" (it has a space) is none.  The URLs of the model all
\* parse.
validMethod(kind) == kind # "BAD METHOD"

NewRequest(kind) == IF validMethod(kind) THEN NilErr ELSE NewRequestErr

\* what the network does with a request: client.Do fails (a timeout too), the
\* body cannot be read, or the server answers with a status and a body
NoNet == [kind |-> "none", status |-> 0, body |-> ""]
NetTransport == [kind |-> "transport", status |-> 0, body |-> ""]
NetRead == [kind |-> "read", status |-> 0, body |-> ""]
Answer(status, body) == [kind |-> "answer", status |-> status, body |-> body]

\* a []byte result: nil, or the bytes
NilBytes == [nil |-> TRUE, raw |-> ""]
Bytes(raw) == [nil |-> FALSE, raw |-> raw]

\* the status test of sendRequest in each copy of the package
StatusIsError(p, status) ==
    IF p = "flexkit"
    THEN status < 200 \/ status > 299
    ELSE status < 200 \/ status > 300

\* mutant: the request is sent a second time
sendRequestDoAgain(call) ==
    LET req == [kind |-> call.kind, url |-> Url(call.path),
                body |-> MarshalBody(call.request), contentType |-> "application/json"]
    IN  <<req, req>>

\* sendRequest up to client.Do: the HTTP requests it puts on the wire
sendRequestDo(call) ==
    IF MarshalErr(call.request) # NilErr THEN <<>>
    ELSE IF NewRequest(call.kind) # NilErr THEN <<>>
    ELSE << [kind |-> call.kind, url |-> Url(call.path), body |-> MarshalBody(call.request),
             contentType |-> "application/json"] >>

\* mutant: on a failed read the bytes read so far are returned with the error
sendRequestKeepsPartialBody(p, call, net) ==
    IF MarshalErr(call.request) # NilErr
    THEN [body |-> NilBytes, err |-> MarshalErr(call.request)]
    ELSE IF NewRequest(call.kind) # NilErr
    THEN [body |-> NilBytes, err |-> NewRequest(call.kind)]
    ELSE IF net.kind = "transport" THEN [body |-> NilBytes, err |-> TransportErr]
    ELSE IF net.kind = "read" THEN [body |-> Bytes(net.body), err |-> ReadErr]
    ELSE IF StatusIsError(p, net.status)
    THEN [body |-> Bytes(net.body),
          err |-> [kind |-> "status",
                   text |-> ErrorText(call.kind, net.status, Url(call.path), net.body)]]
    ELSE [body |-> Bytes(net.body), err |-> NilErr]

\* sendRequest from client.Do to its return: (responseBody, err)
sendRequest(p, call, net) ==
    IF MarshalErr(call.request) # NilErr
    THEN [body |-> NilBytes, err |-> MarshalErr(call.request)]
    ELSE IF NewRequest(call.kind) # NilErr
    THEN [body |-> NilBytes, err |-> NewRequest(call.kind)]
    ELSE IF net.kind = "transport" THEN [body |-> NilBytes, err |-> TransportErr]
    ELSE IF net.kind = "read" THEN [body |-> NilBytes, err |-> ReadErr]
    ELSE IF StatusIsError(p, net.status)
    THEN [body |-> Bytes(net.body),
          err |-> [kind |-> "status",
                   text |-> ErrorText(call.kind, net.status, Url(call.path), net.body)]]
    ELSE [body |-> Bytes(net.body), err |-> NilErr]

\* graphQL up to client.Do
graphQLDo(query, variables) ==
    LET gql == Iface(gqlQuery, [Query |-> query, Variables |-> variables]) IN
    IF MarshalErr(gql) # NilErr THEN <<>>
    ELSE << [kind |-> "POST", url |-> <<domain, "/graphql">>, body |-> MarshalBody(gql),
             contentType |-> "application/json"] >>

\* graphQL from client.Do to its return: the error, and the response it filled in
graphQL(query, variables, T, net) ==
    LET gql == Iface(gqlQuery, [Query |-> query, Variables |-> variables]) IN
    IF MarshalErr(gql) # NilErr THEN [err |-> MarshalErr(gql), response |-> Zero(T)]
    ELSE IF net.kind = "transport" THEN [err |-> TransportErr, response |-> Zero(T)]
    ELSE IF net.kind = "read" THEN [err |-> ReadErr, response |-> Zero(T)]
    ELSE LET u == Unmarshal(net.body, T) IN [err |-> u.err, response |-> u.v]

(***************************************************************************)
(* The results of the public operations                                    *)
(***************************************************************************)
\* a *Member: nil, or a Member{PublicKey, Token}
NilMember == [nil |-> TRUE, PublicKey |-> "", Token |-> ""]
NewMember(publicKey, token) == [nil |-> FALSE, PublicKey |-> publicKey, Token |-> token]

MemberData ==
    Type(<< F("Id", "", TRUE, "string"),
       F("Email", "", TRUE, "string"),
       F("Name", "", TRUE, "string"),
       F("CreditCardLast4", "", TRUE, "string"),
       F("CreditCardType", "", TRUE, "string"),
       F("ShippingName", "", TRUE, "string"),
       F("ShippingAddress", "", TRUE, "string"),
       F("ShippingCity", "", TRUE, "string"),
       F("ShippingState", "", TRUE, "string"),
       F("ShippingZip", "", TRUE, "string"),
       F("ShippingCountry", "", TRUE, "string"),
       F("ShippingOptions", "", TRUE, "string"),
       FOf("DataFields", "", TRUE, "slice", DataItem),
       F("Plan", "", TRUE, "string") >>)

\* a *MemberData: nil, or the MemberData
NilData == [nil |-> TRUE, d |-> Zero(MemberData)]
Data(d) == [nil |-> FALSE, d |-> d]

\* what a public operation returns: its error, and its *Member or *MemberData
Ret(err, member, data) == [err |-> err, member |-> member, data |-> data]
NoRet == Ret(NilErr, NilMember, NilData)

\* "no request value": the operation takes none
NoRequest == [none |-> TRUE]

\* "sendRequest has not returned": the call is inside it, or never calls it
NoInner == [none |-> TRUE]

(***************************************************************************)
(* The public operations.  XCall is the sendRequest call X makes (kind,    *)
(* path, request) with the callee's copy of the request after X assigned   *)
(* to it; X is what X returns when the network does net.                   *)
(***************************************************************************)
LoginCall(request) ==
    [kind |-> "POST", path |-> "/api/service/login",
     request |-> Iface(LoginRequest, request), local |-> request]

\* mutant: the two fields of the Member literal are exchanged
LoginFieldsExchanged(p, request, net) ==
    LET s == sendRequest(p, LoginCall(request), net) IN
    IF s.err # NilErr THEN Ret(s.err, NilMember, NilData)
    ELSE LET u == Unmarshal(s.body.raw, tokenResponse) IN
         IF u.err # NilErr THEN Ret(u.err, NilMember, NilData)
         ELSE Ret(NilErr, NewMember(u.v["Token"], request["PublicKey"]), NilData)

Login(p, request, net) ==
    LET s == sendRequest(p, LoginCall(request), net) IN
    IF s.err # NilErr THEN Ret(s.err, NilMember, NilData)
    ELSE LET u == Unmarshal(s.body.raw, tokenResponse) IN
         IF u.err # NilErr THEN Ret(u.err, NilMember, NilData)
         ELSE Ret(NilErr, NewMember(request["PublicKey"], u.v["Token"]), NilData)

\* the variables map GetData passes to graphQL
GetDataVariables(member) == ("token" :> member.Token)

\* mutant: ShippingCity and ShippingState take each other's source
GetDataCopyCityState(response) ==
    LET m == response["Data"]["Member"] IN
    [Zero(MemberData) EXCEPT
        !["CreditCardLast4"] = m["CcLast4"],
        !["CreditCardType"] = m["CcType"],
        !["DataFields"] = m["DataFields"],
        !["Email"] = m["Email"],
        !["Id"] = m["Id"],
        !["Name"] = m["Name"],
        !["Plan"] = m["Plan"]["Alias"],
        !["ShippingAddress"] = m["ShippingInfo"]["Address"],
        !["ShippingCity"] = m["ShippingInfo"]["State"],
        !["ShippingCountry"] = m["ShippingInfo"]["Country"],
        !["ShippingName"] = m["ShippingInfo"]["Name"],
        !["ShippingState"] = m["ShippingInfo"]["City"],
        !["ShippingZip"] = m["ShippingInfo"]["Zip"]]

\* the assignments of GetData from the response to the MemberData
GetDataCopy(response) ==
    LET m == response["Data"]["Member"] IN
    [Zero(MemberData) EXCEPT
        !["CreditCardLast4"] = m["CcLast4"],
        !["CreditCardType"] = m["CcType"],
        !["DataFields"] = m["DataFields"],
        !["Email"] = m["Email"],
        !["Id"] = m["Id"],
        !["Name"] = m["Name"],
        !["Plan"] = m["Plan"]["Alias"],
        !["ShippingAddress"] = m["ShippingInfo"]["Address"],
        !["ShippingCity"] = m["ShippingInfo"]["City"],
        !["ShippingCountry"] = m["ShippingInfo"]["Country"],
        !["ShippingName"] = m["ShippingInfo"]["Name"],
        !["ShippingState"] = m["ShippingInfo"]["State"],
        !["ShippingZip"] = m["ShippingInfo"]["Zip"]]

\* mutant: a response without a member is reported as an error
GetDataRefusesNoMember(p, member, net) ==
    IF p # "flexkit" THEN Ret(NilErr, NilMember, NilData)
    ELSE LET g == graphQL(getMemberQuery, GetDataVariables(member), memberDataResponse, net) IN
         IF g.err # NilErr THEN Ret(g.err, NilMember, NilData)
         ELSE IF g.response["Data"]["Member"]["Id"] = ""
         THEN Ret(TypeErr, NilMember, NilData)
         ELSE Ret(NilErr, NilMember, Data(GetDataCopy(g.response)))

\* GetData of flexkit.go; the older copy is a stub that returns (nil, nil)
GetData(p, member, net) ==
    IF p # "flexkit" THEN Ret(NilErr, NilMember, NilData)
    ELSE LET g == graphQL(getMemberQuery, GetDataVariables(member), memberDataResponse, net) IN
         IF g.err # NilErr THEN Ret(g.err, NilMember, NilData)
         ELSE Ret(NilErr, NilMember, Data(GetDataCopy(g.response)))

UpdateSettingsCall(member, request) ==
    LET copy == With(request, "token", member.Token) IN
    [kind |-> "POST", path |-> "/api/services/user?action=settings",
     request |-> Iface(SettingsRequest, copy), local |-> copy]

UpdateSettings(p, member, request, net) ==
    LET s == sendRequest(p, UpdateSettingsCall(member, request), net) IN
    IF s.err # NilErr THEN Ret(s.err, NilMember, NilData) ELSE NoRet

UpdateCreditCardCall(p, member, request) ==
    LET copy == With(request, "memberToken", member.Token) IN
    [kind |-> "POST", path |-> "/api/services/user?action=cc",
     request |-> Iface(CreditCardRequest(p), copy), local |-> copy]

UpdateCreditCard(p, member, request, net) ==
    LET s == sendRequest(p, UpdateCreditCardCall(p, member, request), net) IN
    IF s.err # NilErr THEN Ret(s.err, NilMember, NilData) ELSE NoRet

CreatePaymentCall(request) ==
    [kind |-> "POST", path |-> "/api/payments",
     request |-> Iface(PaymentRequest, request), local |-> request]

CreatePayment(p, request, net) ==
    LET s == sendRequest(p, CreatePaymentCall(request), net) IN
    IF s.err # NilErr THEN Ret(s.err, NilMember, NilData) ELSE NoRet

\* the name of the first field of SubscriptionRequest in each copy
SubscriptionForField(p) == SubscriptionRequest(p).fields[1].go

CreateSubscriptionCall(p, request) ==
    LET copy == With(request, SubscriptionForField(p), "space") IN
    [kind |-> "POST", path |-> "/api/subscriptions",
     request |-> Iface(SubscriptionRequest(p), copy), local |-> copy]

\* mutant: the error of json.Unmarshal is returned together with the Member
CreateSubscriptionKeepsMember(p, request, net) ==
    LET s == sendRequest(p, CreateSubscriptionCall(p, request), net) IN
    IF s.err # NilErr THEN Ret(s.err, NilMember, NilData)
    ELSE LET u == Unmarshal(s.body.raw, tokenResponse) IN
         Ret(u.err, NewMember(request["PublicKey"], u.v["Token"]), NilData)

CreateSubscription(p, request, net) ==
    LET s == sendRequest(p, CreateSubscriptionCall(p, request), net) IN
    IF s.err # NilErr THEN Ret(s.err, NilMember, NilData)
    ELSE LET u == Unmarshal(s.body.raw, tokenResponse) IN
         IF u.err # NilErr THEN Ret(u.err, NilMember, NilData)
         ELSE Ret(NilErr, NewMember(request["PublicKey"], u.v["Token"]), NilData)

DeleteCall(member) ==
    [kind |-> "DELETE", path |-> "/api/service/user",
     request |-> IfaceMap(("token" :> member.Token)), local |-> NoRequest]

Delete(p, member, net) ==
    LET s == sendRequest(p, DeleteCall(member), net) IN
    IF s.err # NilErr THEN Ret(s.err, NilMember, NilData) ELSE NoRet

\* mutant: Logout goes to the path of Login
LogoutCallToLogin(p, member) ==
    [kind |-> "POST", path |-> "/api/service/login",
     request |-> IfaceMap(("token" :> member.Token) @@ ("public_key" :> member.PublicKey)),
     local |-> NoRequest]

\* flexkit.go sends token and public_key, the older copy token alone
LogoutCall(p, member) ==
    [kind |-> "POST", path |-> "/api/service/logout",
     request |-> IF p = "flexkit"
                 THEN IfaceMap(("token" :> member.Token) @@ ("public_key" :> member.PublicKey))
                 ELSE IfaceMap(("token" :> member.Token)),
     local |-> NoRequest]

Logout(p, member, net) ==
    LET s == sendRequest(p, LogoutCall(p, member), net) IN
    Ret(s.err, NilMember, NilData)

(***************************************************************************)
(* Package plasso (src/members.go): New                                    *)
(***************************************************************************)
\* the gqlQuery of package plasso: the query alone
plassoGqlQuery == Type(<< F("Query", "query", TRUE, "string") >>)

\* a *plasso: nil, or the plasso{LoggedIn, Token, Id, PlanId, Space}
NilPlasso ==
    [nil |-> TRUE, LoggedIn |-> FALSE, Token |-> "", Id |-> "", PlanId |-> 0,
     Space |-> [LogoutUrl |-> ""]]
NewPlasso(loggedIn, token, id, planId, space) ==
    [nil |-> FALSE, LoggedIn |-> loggedIn, Token |-> token, Id |-> id, PlanId |-> planId,
     Space |-> space]

\* the template of New, cut at its placeholder
template == << "{member(token:\"", "{{.token}}", "\"){id,planId,space{logoutUrl}}}" >>

\* strings.Replace(s, old, new, n) on a text cut at the occurrences of old
RECURSIVE Replace(_, _, _, _)
Replace(pieces, old, new, n) ==
    IF pieces = <<>> THEN ""
    ELSE IF n > 0 /\ Head(pieces) = old
    THEN new \o Replace(Tail(pieces), old, new, n - 1)
    ELSE Head(pieces) \o Replace(Tail(pieces), old, new, n)

\* the gqlQuery New marshals
NewQuery(token) ==
    Iface(plassoGqlQuery, [Query |-> Replace(template, "{{.token}}", token, 1)])

\* New up to client.Do
NewDo(token) ==
    IF MarshalErr(NewQuery(token)) # NilErr THEN <<>>
    ELSE IF NewRequest("POST") # NilErr THEN <<>>
    ELSE << [kind |-> "POST", url |-> <<"https://api.plasso.com">>,
             body |-> MarshalBody(NewQuery(token)), contentType |-> "application/json"] >>

\* mutant: a status outside 200..299 is refused
NewChecksStatus(token, net) ==
    IF MarshalErr(NewQuery(token)) # NilErr
    THEN [err |-> MarshalErr(NewQuery(token)), handle |-> NilPlasso]
    ELSE IF NewRequest("POST") # NilErr THEN [err |-> NewRequest("POST"), handle |-> NilPlasso]
    ELSE IF net.kind = "transport" THEN [err |-> TransportErr, handle |-> NilPlasso]
    ELSE IF net.kind = "read" THEN [err |-> ReadErr, handle |-> NilPlasso]
    ELSE IF net.status < 200 \/ net.status > 299
    THEN [err |-> [kind |-> "status", text |-> <<>>], handle |-> NilPlasso]
    ELSE LET u == Unmarshal(net.body, gqlResponse) IN
         IF u.err # NilErr THEN [err |-> u.err, handle |-> NilPlasso]
         ELSE LET m == u.v["Data"]["Member"] IN
              [err |-> NilErr,
               handle |-> NewPlasso(TRUE, token, m["Id"], m["PlanId"],
                                    [LogoutUrl |-> m["Space"]["LogoutUrl"]])]

\* New from client.Do to its return: (*plasso, error)
New(token, net) ==
    IF MarshalErr(NewQuery(token)) # NilErr
    THEN [err |-> MarshalErr(NewQuery(token)), handle |-> NilPlasso]
    ELSE IF NewRequest("POST") # NilErr THEN [err |-> NewRequest("POST"), handle |-> NilPlasso]
    ELSE IF net.kind = "transport" THEN [err |-> TransportErr, handle |-> NilPlasso]
    ELSE IF net.kind = "read" THEN [err |-> ReadErr, handle |-> NilPlasso]
    ELSE LET u == Unmarshal(net.body, gqlResponse) IN
         IF u.err # NilErr THEN [err |-> u.err, handle |-> NilPlasso]
         ELSE LET m == u.v["Data"]["Member"] IN
              [err |-> NilErr,
               handle |-> NewPlasso(TRUE, token, m["Id"], m["PlanId"],
                                    [LogoutUrl |-> m["Space"]["LogoutUrl"]])]

\* mutant: the request is passed by reference, the callee writes the caller's value
ByReference(request, copy) == copy

\* Go passes the request structs by value: the caller's variable keeps the
\* value it had, whatever the callee assigned to its own copy
ByValue(request, copy) == request

\* no operation assigns to a field of its receiver
Receiver(member) == member

(***************************************************************************)
(* The callers' request values and the network's answers.  A scope names   *)
(* the sets the inputs of a specification are drawn from.                  *)
(***************************************************************************)
\* one goroutine; status codes around the two comparisons of sendRequest and
\* one far from them; bodies of every shape Unmarshal tells apart
Wide ==
    [goroutines |-> {"g1"},
     publicKeys |-> {"pk1", "pk2"},
     unexported |-> {"", "old"},
     subscriptionFor |-> {"", "team"},
     statuses |-> {199, 200, 299, 300, 404},
     tokenBodies |-> {BodyTokenT1, BodyEmptyObject, BodyTokenNumber, BodyEmptyArray,
                      BodyJsonNull, BodyNotJson},
     memberBodies |-> {BodyMemberFull, BodyMemberPartial, BodyMemberNull,
                       BodyMemberErrors, BodyMemberBadId, BodyNotJson},
     plainBodies |-> {BodyNoBody, BodyErrorObject}]

\* two goroutines, each with one request value per operation and a success, a
\* refusal or a failure of the network
Narrow ==
    [goroutines |-> {"g1", "g2"},
     publicKeys |-> {"pk1"},
     unexported |-> {"old"},
     subscriptionFor |-> {"team"},
     statuses |-> {200, 404},
     tokenBodies |-> {BodyTokenT1, BodyNotJson},
     memberBodies |-> {BodyMemberFull, BodyNotJson},
     plainBodies |-> {BodyErrorObject}]

LoginRequests(sc) ==
    {[Zero(LoginRequest) EXCEPT !["PublicKey"] = pk, !["Email"] = "ann@x.io",
                                !["Password"] = "secret"] : pk \in sc.publicKeys}

\* code inside the package can set the unexported field; other callers leave it ""
SettingsRequests(sc) ==
    {[Zero(SettingsRequest) EXCEPT !["Name"] = "Ann", !["token"] = t] :
        t \in sc.unexported}

CreditCardRequests(sc, p) ==
    {[Zero(CreditCardRequest(p)) EXCEPT !["Last4"] = "4242", !["memberToken"] = t] :
        t \in sc.unexported}

PaymentRequests(sc) ==
    {[Zero(PaymentRequest) EXCEPT
        !["PublicKey"] = "pk1", !["Token"] = "tok_visa",
        !["Products"] = <<[Id |-> "p1", Qty |-> "2", Amount |-> ""]>>,
        !["DataFields"] = <<[Id |-> "d1", Value |-> "v1"]>>]}

SubscriptionRequests(sc, p) ==
    {[Zero(SubscriptionRequest(p)) EXCEPT
        !["PublicKey"] = "pk1", !["Plan"] = "gold", ![SubscriptionForField(p)] = sf] :
        sf \in sc.subscriptionFor}

BodiesFor(sc, o) ==
    IF o \in {"Login", "CreateSubscription"} THEN sc.tokenBodies
    ELSE IF o = "GetData" THEN sc.memberBodies
    ELSE sc.plainBodies

Nets(sc, o) ==
    {NetTransport, NetRead} \cup {Answer(st, b) : st \in sc.statuses, b \in BodiesFor(sc, o)}

(***************************************************************************)
(* The state machine                                                       *)
(***************************************************************************)
InitOf(sc) ==
    /\ pkg \in Packages
    /\ members = <<>>
    /\ retired = {}
    /\ pc = [g \in sc.goroutines |-> "idle"]
    /\ op = [g \in sc.goroutines |-> "none"]
    /\ recv = [g \in sc.goroutines |-> 0]
    /\ given = [g \in sc.goroutines |-> NoRequest]
    /\ arg = [g \in sc.goroutines |-> NoRequest]
    /\ local = [g \in sc.goroutines |-> NoRequest]
    /\ wire = [g \in sc.goroutines |-> <<>>]
    /\ resp = [g \in sc.goroutines |-> NoNet]
    /\ ret = [g \in sc.goroutines |-> NoRet]
    /\ inner = [g \in sc.goroutines |-> NoInner]
    /\ stale = [g \in sc.goroutines |-> FALSE]

\* goroutine g calls operation o on receiver m with a request: the callee runs
\* up to client.Do, with sent on the wire
Begin(g, o, m, request, copy, sent) ==
    /\ pc[g] # "waiting"
    /\ pc' = [pc EXCEPT ![g] = "waiting"]
    /\ op' = [op EXCEPT ![g] = o]
    /\ recv' = [recv EXCEPT ![g] = m]
    /\ given' = [given EXCEPT ![g] = request]
    /\ arg' = [arg EXCEPT ![g] = ByValue(request, copy)]
    /\ local' = [local EXCEPT ![g] = copy]
    /\ wire' = [wire EXCEPT ![g] = sent]
    /\ resp' = [resp EXCEPT ![g] = NoNet]
    /\ ret' = [ret EXCEPT ![g] = NoRet]
    /\ inner' = [inner EXCEPT ![g] = NoInner]
    /\ stale' = [stale EXCEPT ![g] = m \in retired]
    /\ UNCHANGED <<pkg, members, retired>>

BeginCall(g, o, m, request, call) ==
    Begin(g, o, m, request, call.local, sendRequestDo(call))

CallLogin(g, sc) ==
    \E request \in LoginRequests(sc) :
        BeginCall(g, "Login", 0, request, LoginCall(request))

CallCreatePayment(g, sc) ==
    \E request \in PaymentRequests(sc) :
        BeginCall(g, "CreatePayment", 0, request, CreatePaymentCall(request))

CallCreateSubscription(g, sc) ==
    \E request \in SubscriptionRequests(sc, pkg) :
        BeginCall(g, "CreateSubscription", 0, request, CreateSubscriptionCall(pkg, request))

CallUpdateSettings(g, sc) ==
    \E m \in DOMAIN members, request \in SettingsRequests(sc) :
        BeginCall(g, "UpdateSettings", m, request, UpdateSettingsCall(members[m], request))

CallUpdateCreditCard(g, sc) ==
    \E m \in DOMAIN members, request \in CreditCardRequests(sc, pkg) :
        BeginCall(g, "UpdateCreditCard", m, request,
                  UpdateCreditCardCall(pkg, members[m], request))

CallDelete(g) ==
    \E m \in DOMAIN members : BeginCall(g, "Delete", m, NoRequest, DeleteCall(members[m]))

CallLogout(g) ==
    \E m \in DOMAIN members :
        BeginCall(g, "Logout", m, NoRequest, LogoutCall(pkg, members[m]))

\* GetData of flexkit.go goes through graphQL; the stub of the older copy
\* sends nothing (Return completes it without an exchange)
CallGetData(g) ==
    \E m \in DOMAIN members :
        Begin(g, "GetData", m, NoRequest, NoRequest,
              IF pkg = "flexkit"
              THEN graphQLDo(getMemberQuery, GetDataVariables(members[m]))
              ELSE <<>>)

\* the public operations of package flexkit
PublicOps ==
    {"Login", "GetData", "UpdateSettings", "UpdateCreditCard", "CreatePayment",
     "CreateSubscription", "Delete", "Logout"}

\* what operation o returns when the network does net
Result(p, o, member, request, net) ==
    CASE o = "Login" -> Login(p, request, net)
      [] o = "GetData" -> GetData(p, member, net)
      [] o = "UpdateSettings" -> UpdateSettings(p, member, request, net)
      [] o = "UpdateCreditCard" -> UpdateCreditCard(p, member, request, net)
      [] o = "CreatePayment" -> CreatePayment(p, request, net)
      [] o = "CreateSubscription" -> CreateSubscription(p, request, net)
      [] o = "Delete" -> Delete(p, member, net)
      [] o = "Logout" -> Logout(p, member, net)

\* the sendRequest call operation o makes
CallOf(p, o, member, request) ==
    CASE o = "Login" -> LoginCall(request)
      [] o = "UpdateSettings" -> UpdateSettingsCall(member, request)
      [] o = "UpdateCreditCard" -> UpdateCreditCardCall(p, member, request)
      [] o = "CreatePayment" -> CreatePaymentCall(request)
      [] o = "CreateSubscription" -> CreateSubscriptionCall(p, request)
      [] o = "Delete" -> DeleteCall(member)
      [] o = "Logout" -> LogoutCall(p, member)

\* what sendRequest returned to operation o (GetData does not call it)
Inner(p, o, member, request, net) ==
    IF o = "GetData" THEN NoInner
    ELSE sendRequest(p, CallOf(p, o, member, request), net)

\* the receiver of goroutine g's call
ReceiverOf(g) == IF recv[g] = 0 THEN NilMember ELSE members[recv[g]]

\* the heap after a call returned r: a new Member is kept while there is room,
\* and the receiver is as the operation left it
Heap(g, r) ==
    LET kept == [i \in DOMAIN members |->
                    IF i = recv[g] THEN Receiver(members[i]) ELSE members[i]]
    IN  IF ~r.member.nil /\ Len(members) < MaxMembers
        THEN Append(kept, r.member)
        ELSE kept

\* the network answers goroutine g (or fails), and its call runs to its return
Return(g, sc) ==
    /\ pc[g] = "waiting"
    /\ op[g] \in PublicOps
    /\ \E net \in (IF wire[g] = <<>> THEN {NoNet} ELSE Nets(sc, op[g])) :
        LET r == Result(pkg, op[g], ReceiverOf(g), given[g], net) IN
        /\ resp' = [resp EXCEPT ![g] = net]
        /\ ret' = [ret EXCEPT ![g] = r]
        /\ inner' = [inner EXCEPT ![g] = Inner(pkg, op[g], ReceiverOf(g), given[g], net)]
        /\ members' = Heap(g, r)
        /\ retired' = IF op[g] \in {"Delete", "Logout"} /\ r.err = NilErr
                      THEN retired \cup {recv[g]}
                      ELSE retired
    /\ pc' = [pc EXCEPT ![g] = "returned"]
    /\ UNCHANGED <<pkg, op, recv, given, arg, local, wire, stale>>

Step(g, sc) ==
    \/ CallLogin(g, sc)
    \/ CallGetData(g)
    \/ CallUpdateSettings(g, sc)
    \/ CallUpdateCreditCard(g, sc)
    \/ CallCreatePayment(g, sc)
    \/ CallCreateSubscription(g, sc)
    \/ CallDelete(g)
    \/ CallLogout(g)
    \/ Return(g, sc)

Init == InitOf(Wide)

Next == \E g \in Wide.goroutines : Step(g, Wide)

Spec == Init /\ [][Next]_vars

\* the same program with two goroutines calling concurrently
InitConc == InitOf(Narrow)

NextConc == \E g \in Narrow.goroutines : Step(g, Narrow)

SpecConc == InitConc /\ [][NextConc]_vars

(***************************************************************************)
(* sendRequest called on its own, as code inside the package can call it:  *)
(* with any method and any interface{} value                               *)
(***************************************************************************)
SendRequestKinds == {"POST", "DELETE", "BAD METHOD"}

SendRequestPaths == {"/api/payments", "/api/service/user"}

SendRequestValues ==
    {Iface(LoginRequest, [Zero(LoginRequest) EXCEPT !["PublicKey"] = "pk1"]),
     IfaceMap(("token" :> "t1")),
     IfaceChan}

\* goroutine g calls sendRequest(kind, path, request) and runs up to client.Do
CallSendRequest(g) ==
    \E kind \in SendRequestKinds, path \in SendRequestPaths, request \in SendRequestValues :
        LET call == [kind |-> kind, path |-> path, request |-> request, local |-> NoRequest]
        IN  Begin(g, "sendRequest", 0, call, call, sendRequestDo(call))

\* the network answers (or fails), and sendRequest runs to its return; when
\* nothing was sent it has returned before client.Do
ReturnSendRequest(g, sc) ==
    /\ pc[g] = "waiting"
    /\ op[g] = "sendRequest"
    /\ \E net \in (IF wire[g] = <<>> THEN {NoNet} ELSE Nets(sc, op[g])) :
        /\ resp' = [resp EXCEPT ![g] = net]
        /\ inner' = [inner EXCEPT ![g] = sendRequest(pkg, given[g], net)]
    /\ pc' = [pc EXCEPT ![g] = "returned"]
    /\ UNCHANGED <<pkg, members, retired, op, recv, given, arg, local, wire, ret, stale>>

NextInternal ==
    \E g \in Wide.goroutines :
        \/ Step(g, Wide)
        \/ CallSendRequest(g)
        \/ ReturnSendRequest(g, Wide)

\* the public operations, and sendRequest called on its own
SpecInternal == Init /\ [][NextInternal]_vars

(***************************************************************************)
(* plasso.New called with a token                                          *)
(***************************************************************************)
NewTokens == {"", "tk1", "tk2"}

\* the bodies https://api.plasso.com answers with in the model
NewBodies ==
    {BodyPlassoFull, BodyPlassoPlanString, BodyPlassoPlanBig, BodyMemberNull,
     BodyMemberErrors, BodyJsonNull, BodyEmptyArray, BodyNotJson}

NewNets(sc) ==
    {NetTransport, NetRead} \cup {Answer(st, b) : st \in sc.statuses, b \in NewBodies}

\* goroutine g calls New(token) and runs up to client.Do
CallNew(g) ==
    \E token \in NewTokens : Begin(g, "New", 0, token, token, NewDo(token))

\* the network answers (or fails), and New runs to its return
ReturnNew(g, sc) ==
    /\ pc[g] = "waiting"
    /\ op[g] = "New"
    /\ \E net \in (IF wire[g] = <<>> THEN {NoNet} ELSE NewNets(sc)) :
        /\ resp' = [resp EXCEPT ![g] = net]
        /\ ret' = [ret EXCEPT ![g] = New(given[g], net)]
    /\ pc' = [pc EXCEPT ![g] = "returned"]
    /\ UNCHANGED <<pkg, members, retired, op, recv, given, arg, local, wire, inner, stale>>

NextNew == \E g \in Wide.goroutines : CallNew(g) \/ ReturnNew(g, Wide)

SpecNew == Init /\ [][NextNew]_vars

(***************************************************************************)
(* Properties                                                              *)
(***************************************************************************)
\* the operations that go through sendRequest
SendRequestOps ==
    {"Login", "UpdateSettings", "UpdateCreditCard", "CreatePayment",
     "CreateSubscription", "Delete", "Logout"}

\* the operations whose error is the error of sendRequest, unchanged
PassThroughOps == {"UpdateSettings", "UpdateCreditCard", "CreatePayment", "Delete", "Logout"}

\* the operations on a Member
MemberOps == {"GetData", "UpdateSettings", "UpdateCreditCard", "Delete", "Logout"}

Is2xx(status) == status \in 200..299

\* the pieces of sub occur in text, next to each other and in order
Contains(text, sub) ==
    \E i \in 0..(Len(text) - Len(sub)) : SubSeq(text, i + 1, i + Len(sub)) = sub

\* goroutine g's call has returned after the server answered it
Answered(g) == pc[g] = "returned" /\ resp[g].kind = "answer"

\* C1: in flexkit.go, when the server answers an operation that goes through
\* sendRequest with a status outside 200..299, the operation returns an error
\* whose text contains the method and the URL of the request, the status code in
\* decimal and the response body.
C1_NonSuccessStatusIsReported ==
    \A g \in DOMAIN pc :
        (pkg = "flexkit" /\ Answered(g) /\ op[g] \in SendRequestOps
            /\ ~Is2xx(resp[g].status))
        => /\ ret[g].err # NilErr
           /\ Contains(ret[g].err.text, <<wire[g][1].kind>>)
           /\ Contains(ret[g].err.text, Itoa(resp[g].status))
           /\ Contains(ret[g].err.text, wire[g][1].url)
           /\ Contains(ret[g].err.text, <<resp[g].body>>)

C1_Witness ==
    \E g \in DOMAIN pc :
        /\ pkg = "flexkit" /\ Answered(g) /\ op[g] = "Delete"
        /\ resp[g].status = 404 /\ resp[g].body = BodyErrorObject
        /\ ret[g].err.text
             = <<"DELETE", " ", "4", "0", "4", " ", "https://plasso.com",
                 "/api/service/user", " ", BodyErrorObject>>

\* C2: in every copy of sendRequest, once the request was marshalled and the
\* server answered, the call returns an error if and only if the status is
\* outside 200..299 (seen through the operations that hand the error of
\* sendRequest to their caller unchanged).
C2_ErrorIffNot2xx ==
    \A g \in DOMAIN pc :
        (Answered(g) /\ op[g] \in PassThroughOps)
        => (ret[g].err # NilErr <=> ~Is2xx(resp[g].status))

\* C3: when /graphql answers GetData with a status outside 200..299, GetData
\* returns a nil MemberData and an error that contains the status code and the
\* response body, whatever the body.
C3_GetDataReportsStatus ==
    \A g \in DOMAIN pc :
        (pkg = "flexkit" /\ Answered(g) /\ op[g] = "GetData" /\ ~Is2xx(resp[g].status))
        => /\ ret[g].data.nil
           /\ ret[g].err # NilErr
           /\ Contains(ret[g].err.text, Itoa(resp[g].status))
           /\ Contains(ret[g].err.text, <<resp[g].body>>)

\* C4: the JSON body UpdateSettings and UpdateCreditCard send has the key
\* "pltoken", with the Token of the Member as its value.
C4_BodyCarriesPltoken ==
    \A g \in DOMAIN pc :
        (op[g] \in {"UpdateSettings", "UpdateCreditCard"} /\ wire[g] # <<>>)
        => /\ HasKey(wire[g][1].body, "pltoken")
           /\ wire[g][1].body.f["pltoken"] = JStr(members[recv[g]].Token)

\* the string at key k of JSON object j; "" when j has no such key or it is null
StringAt(j, k) ==
    IF HasKey(j, k) /\ j.f[k].t = "string" THEN j.f[k].s ELSE ""

\* C5 as claimed: whenever Login gets a 2xx response whose body is JSON, it
\* returns no error and a Member with the PublicKey of the request and the
\* "token" of the body as Token.
C5_LoginOnAnyJson ==
    \A g \in DOMAIN pc :
        (Answered(g) /\ op[g] = "Login" /\ Is2xx(resp[g].status)
            /\ Parse(resp[g].body).ok)
        => /\ ret[g].err = NilErr
           /\ ~ret[g].member.nil
           /\ ret[g].member.PublicKey = given[g]["PublicKey"]
           /\ ret[g].member.Token = StringAt(Parse(resp[g].body).v, "token")

\* a JSON document that json.Unmarshal stores in a tokenResponse without error:
\* null, or an object whose "token", when it has one, is a string or null
FitsTokenResponse(j) ==
    \/ j.t = "null"
    \/ /\ j.t = "object"
       /\ HasKey(j, "token") => j.f["token"].t \in {"string", "null"}

\* C5 as amended: whenever Login gets a 2xx response whose body is JSON that
\* fits a tokenResponse, it returns no error and a Member with the PublicKey of
\* the request and, as Token, the "token" string of the body ("" when the body
\* has none).
C5_LoginOnTokenJson ==
    \A g \in DOMAIN pc :
        (Answered(g) /\ op[g] = "Login" /\ Is2xx(resp[g].status)
            /\ Parse(resp[g].body).ok /\ FitsTokenResponse(Parse(resp[g].body).v))
        => /\ ret[g].err = NilErr
           /\ ~ret[g].member.nil
           /\ ret[g].member.PublicKey = given[g]["PublicKey"]
           /\ ret[g].member.Token = StringAt(Parse(resp[g].body).v, "token")

C5_Witness ==
    \E g \in DOMAIN pc :
        /\ Answered(g) /\ op[g] = "Login" /\ resp[g] = Answer(299, BodyTokenT1)
        /\ given[g]["PublicKey"] = "pk2"
        /\ ret[g] = Ret(NilErr, NewMember("pk2", "t1"), NilData)

\* C6: once Logout or Delete returned nil on a Member, no later operation on
\* that Member succeeds.
C6_RetiredMemberIsUnusable ==
    \A g \in DOMAIN pc :
        (pc[g] = "returned" /\ stale[g] /\ op[g] \in MemberOps)
        => ret[g].err # NilErr

\* the JSON value at a path of keys; null where the path leaves the document
RECURSIVE At(_, _)
At(j, path) ==
    IF path = <<>> THEN j
    ELSE IF HasKey(j, Head(path)) THEN At(j.f[Head(path)], Tail(path))
    ELSE JNull

\* a JSON string as a Go string; "" for null
Str(j) == IF j.t = "string" THEN j.s ELSE ""

\* a JSON array of {id, value} objects as DataItems; none for null
Items(j) ==
    IF j.t = "array"
    THEN [i \in 1..Len(j.a) |->
            [Id |-> Str(At(j.a[i], <<"id">>)), Value |-> Str(At(j.a[i], <<"value">>))]]
    ELSE <<>>

\* C7: the MemberData that GetData returns matches data.member of the response
\* field by field, and the request carries the Token of the Member as the
\* GraphQL variable "token".
C7_MemberDataMatchesResponse ==
    \A g \in DOMAIN pc :
        /\ (pkg = "flexkit" /\ Answered(g) /\ op[g] = "GetData" /\ ~ret[g].data.nil)
           => LET m == At(Parse(resp[g].body).v, <<"data", "member">>)
                  d == ret[g].data.d
              IN  /\ d["Id"] = Str(At(m, <<"id">>))
                  /\ d["Name"] = Str(At(m, <<"name">>))
                  /\ d["Email"] = Str(At(m, <<"email">>))
                  /\ d["CreditCardLast4"] = Str(At(m, <<"ccLast4">>))
                  /\ d["CreditCardType"] = Str(At(m, <<"ccType">>))
                  /\ d["Plan"] = Str(At(m, <<"plan", "alias">>))
                  /\ d["DataFields"] = Items(At(m, <<"dataFields">>))
                  /\ d["ShippingName"] = Str(At(m, <<"shippingInfo", "name">>))
                  /\ d["ShippingAddress"] = Str(At(m, <<"shippingInfo", "address">>))
                  /\ d["ShippingCity"] = Str(At(m, <<"shippingInfo", "city">>))
                  /\ d["ShippingState"] = Str(At(m, <<"shippingInfo", "state">>))
                  /\ d["ShippingZip"] = Str(At(m, <<"shippingInfo", "zip">>))
                  /\ d["ShippingCountry"] = Str(At(m, <<"shippingInfo", "country">>))
        /\ (pkg = "flexkit" /\ op[g] = "GetData" /\ wire[g] # <<>>)
           => At(wire[g][1].body, <<"variables", "token">>)
                = JStr(members[recv[g]].Token)

C7_Witness ==
    \E g \in DOMAIN pc :
        /\ pkg = "flexkit" /\ Answered(g) /\ op[g] = "GetData"
        /\ resp[g].body = BodyMemberFull
        /\ ~ret[g].data.nil
        /\ ret[g].data.d["Id"] = "m1"
        /\ ret[g].data.d["ShippingCity"] = "Oslo"
        /\ ret[g].data.d["DataFields"] = <<[Id |-> "d1", Value |-> "v1"]>>

\* the method and the path of each public operation
Route(o) ==
    CASE o = "Login" -> <<"POST", "/api/service/login">>
      [] o = "CreatePayment" -> <<"POST", "/api/payments">>
      [] o = "CreateSubscription" -> <<"POST", "/api/subscriptions">>
      [] o = "GetData" -> <<"POST", "/graphql">>
      [] o = "UpdateSettings" -> <<"POST", "/api/services/user?action=settings">>
      [] o = "UpdateCreditCard" -> <<"POST", "/api/services/user?action=cc">>
      [] o = "Logout" -> <<"POST", "/api/service/logout">>
      [] o = "Delete" -> <<"DELETE", "/api/service/user">>

\* C8: every request of a public operation goes to the operation's one method
\* and path under https://plasso.com, whatever its arguments; the body of
\* Delete is the Member's token alone and the body of Logout (flexkit.go) its
\* token and public_key.
C8_FixedRoutes ==
    \A g \in DOMAIN pc :
        wire[g] # <<>>
        => /\ \A i \in 1..Len(wire[g]) :
                /\ wire[g][i].kind = Route(op[g])[1]
                /\ wire[g][i].url = <<"https://plasso.com", Route(op[g])[2]>>
           /\ op[g] = "Delete"
                => wire[g][1].body = JObj(("token" :> JStr(members[recv[g]].Token)))
           /\ (op[g] = "Logout" /\ pkg = "flexkit")
                => wire[g][1].body
                     = JObj(("token" :> JStr(members[recv[g]].Token))
                            @@ ("public_key" :> JStr(members[recv[g]].PublicKey)))

C8_Witness ==
    \E g \in DOMAIN pc :
        /\ pkg = "flexkit" /\ op[g] = "Logout" /\ pc[g] = "waiting"
        /\ members[recv[g]] = NewMember("pk2", "t1")
        /\ wire[g][1].kind = "POST"
        /\ wire[g][1].url = <<"https://plasso.com", "/api/service/logout">>
        /\ DOMAIN wire[g][1].body.f = {"token", "public_key"}

\* C9: a call of a public operation issues at most one HTTP request, whatever
\* its outcome, and every answer of the network is to a request that was issued.
C9_AtMostOneRequest ==
    \A g \in DOMAIN pc :
        /\ Len(wire[g]) <= 1
        /\ resp[g].kind # "none" => Len(wire[g]) = 1

C9_Witness ==
    \E g \in DOMAIN pc :
        /\ pc[g] = "returned" /\ op[g] = "Login" /\ resp[g].kind = "transport"
        /\ ret[g].err = TransportErr
        /\ Len(wire[g]) = 1

\* the caller's request variable holds what the caller passed
ArgKept == \A g \in DOMAIN pc : arg[g] = given[g]

\* two calls of the same operation with the same arguments, on Members of the
\* same value, that got the same answer have returned the same
SameInSameOut ==
    \A g, h \in DOMAIN pc :
        (/\ pc[g] = "returned" /\ pc[h] = "returned"
         /\ op[g] = op[h]
         /\ given[g] = given[h]
         /\ ReceiverOf(g) = ReceiverOf(h)
         /\ resp[g] = resp[h])
        => ret[g] = ret[h]

\* a step leaves every Member object as it was
MembersKept ==
    \A i \in DOMAIN members : i \in DOMAIN members' /\ members'[i] = members[i]

C11_SubscriptionForIsSpace ==
    \A g \in DOMAIN pc :
        /\ (op[g] = "CreateSubscription" /\ wire[g] # <<>>)
           => /\ HasKey(wire[g][1].body, "subscription_for")
              /\ wire[g][1].body.f["subscription_for"] = JStr("space")
        /\ (Answered(g) /\ op[g] = "CreateSubscription" /\ Is2xx(resp[g].status)
               /\ Parse(resp[g].body).ok /\ FitsTokenResponse(Parse(resp[g].body).v))
           => /\ ret[g].err = NilErr
              /\ ~ret[g].member.nil
              /\ ret[g].member.PublicKey = given[g]["PublicKey"]
              /\ ret[g].member.Token = StringAt(Parse(resp[g].body).v, "token")

\* the operations that return (*Member, error)
MemberMakers == {"Login", "CreateSubscription"}

\* goroutine g's call met one of the failures on its way: the request was not
\* sent (marshalling failed), the transport or the reading of the body failed,
\* the status is outside 200..299, or json.Unmarshal refuses the body
Failed(g) ==
    \/ wire[g] = <<>>
    \/ resp[g].kind # "answer"
    \/ ~Is2xx(resp[g].status)
    \/ ~Parse(resp[g].body).ok
    \/ ~FitsTokenResponse(Parse(resp[g].body).v)

\* C12: Login and CreateSubscription return exactly one of a Member and an
\* error; in flexkit.go the error is returned exactly on a marshal failure, a
\* transport failure, a status outside 200..299 or a response body that
\* json.Unmarshal refuses.  UpdateSettings, UpdateCreditCard, CreatePayment,
\* Delete and Logout return nil exactly when sendRequest returned no error.
C12_MemberOrError ==
    \A g \in DOMAIN pc :
        pc[g] = "returned"
        => /\ op[g] \in MemberMakers
              => /\ ret[g].member.nil <=> ret[g].err # NilErr
                 /\ pkg = "flexkit" => (ret[g].err # NilErr <=> Failed(g))
           /\ op[g] \in PassThroughOps
              => /\ ret[g].member.nil
                 /\ ret[g].err = NilErr <=> inner[g].err = NilErr

C12_Witness ==
    \E g \in DOMAIN pc :
        /\ pkg = "flexkit" /\ Answered(g) /\ op[g] = "CreateSubscription"
        /\ resp[g] = Answer(200, BodyTokenNumber)
        /\ ret[g] = Ret(TypeErr, NilMember, NilData)

\* C13: Login and CreateSubscription never return a Member whose Token is empty
\* together with a nil error; a 2xx response whose body has no "token" key is
\* not turned into a Member.
C13_NoMemberWithoutToken ==
    \A g \in DOMAIN pc :
        (pc[g] = "returned" /\ op[g] \in MemberMakers /\ ret[g].err = NilErr)
        => /\ ~ret[g].member.nil
           /\ ret[g].member.Token # ""

\* a JSON value json.Unmarshal stores in a struct whose fields at keys are
\* strings: null, or an object whose values at keys are strings or null
FitsStruct(j, keys) ==
    \/ j.t = "null"
    \/ /\ j.t = "object"
       /\ \A k \in keys : HasKey(j, k) => j.f[k].t \in {"string", "null"}

\* a JSON value json.Unmarshal stores in a []DataItem
FitsItems(j) ==
    \/ j.t = "null"
    \/ /\ j.t = "array"
       /\ \A i \in 1..Len(j.a) : FitsStruct(j.a[i], {"id", "value"})

\* a JSON value json.Unmarshal stores in the Member of a memberDataResponse
FitsMember(j) ==
    /\ FitsStruct(j, {"id", "name", "email", "ccType", "ccLast4"})
    /\ FitsStruct(At(j, <<"plan">>), {"alias"})
    /\ FitsStruct(At(j, <<"shippingInfo">>),
                  {"name", "address", "city", "state", "zip", "country"})
    /\ FitsItems(At(j, <<"dataFields">>))

\* a JSON document json.Unmarshal stores in a memberDataResponse without error
FitsMemberDataResponse(j) ==
    /\ j.t \in {"null", "object"}
    /\ At(j, <<"data">>).t \in {"null", "object"}
    /\ FitsMember(At(j, <<"data", "member">>))

\* what C14 says of the call of goroutine g, for the bodies that satisfy fits
GetDataWithoutMember(g, fits) ==
    /\ (Answered(g) /\ op[g] = "GetData" /\ fits)
       => /\ ~ret[g].data.nil
          /\ ret[g].err = NilErr
          /\ At(Parse(resp[g].body).v, <<"data", "member">>) = JNull
             => ret[g].data.d = Zero(MemberData)
    /\ (pc[g] = "returned" /\ op[g] = "GetData" /\ ~ret[g].data.nil)
       => ret[g].data.d["ShippingOptions"] = ""

\* C14 as claimed: whenever the body of the GraphQL response parses as JSON,
\* GetData (flexkit.go) returns a MemberData and a nil error, also when the body
\* carries no member, and then every field is empty; ShippingOptions is empty in
\* every MemberData returned.
C14_GetDataOnAnyJson ==
    \A g \in DOMAIN pc :
        pkg = "flexkit" => GetDataWithoutMember(g, Parse(resp[g].body).ok)

\* C14 as amended: the same, for the bodies that are JSON json.Unmarshal stores
\* in a memberDataResponse (every value present has the JSON type of its field).
C14_GetDataOnFittingJson ==
    \A g \in DOMAIN pc :
        pkg = "flexkit"
        => GetDataWithoutMember(g, /\ Parse(resp[g].body).ok
                                   /\ FitsMemberDataResponse(Parse(resp[g].body).v))

C14_Witness ==
    \E g \in DOMAIN pc :
        /\ pkg = "flexkit" /\ Answered(g) /\ op[g] = "GetData"
        /\ resp[g] = Answer(404, BodyMemberNull)
        /\ ret[g] = Ret(NilErr, NilMember, Data(Zero(MemberData)))

\* the server answered goroutine g's request with a status outside 200..299
AnsweredNot2xx(g) == resp[g].kind = "answer" /\ ~Is2xx(resp[g].status)

\* C15: sendRequest (flexkit.go) returns a non-nil body together with a non-nil
\* error exactly when the server answered with a status outside 200..299, and
\* a nil body with every other error (marshal, request construction, transport,
\* body read); a public operation that gets an error from sendRequest returns
\* that error and nothing else, so the body reaches its caller in the error
\* text only.
C15_BodyWithErrorOnlyOnStatus ==
    \A g \in DOMAIN pc :
        (pc[g] = "returned" /\ inner[g] # NoInner)
        => /\ pkg = "flexkit"
              => ((~inner[g].body.nil /\ inner[g].err # NilErr) <=> AnsweredNot2xx(g))
           /\ (inner[g].err # NilErr /\ ~AnsweredNot2xx(g)) => inner[g].body.nil
           /\ inner[g].err.kind \in {"marshal", "request", "transport", "read"}
              => inner[g].body.nil
           /\ (op[g] \in SendRequestOps /\ inner[g].err # NilErr)
              => ret[g] = Ret(inner[g].err, NilMember, NilData)

C15_Witness ==
    \E g \in DOMAIN pc :
        /\ pkg = "flexkit" /\ pc[g] = "returned" /\ op[g] = "sendRequest"
        /\ given[g].kind = "DELETE" /\ given[g].request = IfaceMap(("token" :> "t1"))
        /\ resp[g] = Answer(300, BodyErrorObject)
        /\ inner[g].body = Bytes(BodyErrorObject)
        /\ inner[g].err.kind = "status"

\* a JSON document json.Unmarshal stores in a gqlResponse (package plasso)
\* without error: planId, when present, is an int32 literal or null
FitsGqlResponse(j) ==
    LET m == At(j, <<"data", "member">>) IN
    /\ j.t \in {"null", "object"}
    /\ At(j, <<"data">>).t \in {"null", "object"}
    /\ FitsStruct(m, {"id"})
    /\ At(m, <<"planId">>).t \in {"null", "number"}
    /\ At(m, <<"planId">>).t = "number" => "n" \in DOMAIN At(m, <<"planId">>)
    /\ FitsStruct(At(m, <<"space">>), {"slug", "logoutUrl"})

\* what C16 says of the call of goroutine g, for the bodies that satisfy fits
NewOnBody(g, fits) ==
    (pc[g] = "returned" /\ op[g] = "New")
    => /\ (resp[g].kind = "answer" /\ fits)
          => /\ ret[g].err = NilErr
             /\ ~ret[g].handle.nil
             /\ ret[g].handle.LoggedIn
             /\ ret[g].handle.Token = given[g]
             /\ At(Parse(resp[g].body).v, <<"data", "member">>) = JNull
                => (ret[g].handle.Id = "" /\ ret[g].handle.PlanId = 0)
       /\ ret[g].handle.nil
          => (wire[g] = <<>> \/ resp[g].kind \in {"transport", "read"} \/ ~fits)

\* C16 as claimed: whenever the response body parses as JSON, New returns a
\* handle with LoggedIn = TRUE and the Token given, whatever the status and
\* whether or not the response has a member (Id is then "" and PlanId 0); it
\* returns a nil handle only on a marshal, transport, read or JSON-parse failure.
C16_NewOnAnyJson ==
    \A g \in DOMAIN pc : NewOnBody(g, Parse(resp[g].body).ok)

\* C16 as amended: the same, for the bodies that are JSON json.Unmarshal stores
\* in a gqlResponse; a nil handle is returned only on a marshal, transport or
\* read failure or when json.Unmarshal refuses the body.
C16_NewOnFittingJson ==
    \A g \in DOMAIN pc :
        NewOnBody(g, /\ Parse(resp[g].body).ok
                     /\ FitsGqlResponse(Parse(resp[g].body).v))

C16_Witness ==
    \E g \in DOMAIN pc :
        /\ pc[g] = "returned" /\ op[g] = "New" /\ given[g] = "tk1"
        /\ resp[g] = Answer(404, BodyMemberNull)
        /\ ret[g].err = NilErr
        /\ ret[g].handle = NewPlasso(TRUE, "tk1", "", 0, [LogoutUrl |-> ""])
        /\ wire[g][1].body
             = JObj(("query" :> JStr("{member(token:\"tk1\"){id,planId,space{logoutUrl}}}")))

====
